---------------------------- MODULE Spec2Model ----------------------------
(* A model of src/tmp/entities.py: the codepoint transcoder                *)
(* convert_unicode_escape_to_zig and the generator                         *)
(* generate_zig_entity_array.                                              *)
(*                                                                         *)
(* A Python str is a sequence of code points (integers 0 .. 0x10FFFF,      *)
(* surrogates included).  Text the program produces is a sequence of       *)
(* one-character strings.                                                  *)
EXTENDS Integers, Sequences, FiniteSets, TLC

\* ------------------------------------------------------------------ bounds
MaxLen == 2         \* longest string handed to the transcoder
MaxRecords == 2     \* most records in the entity table
MaxCps == 2         \* longest codepoints list of a record

\* ------------------------------------------------------- program constants
HighSurrogateMin == 55296   \* 0xD800
HighSurrogateMax == 56319   \* 0xDBFF
LowSurrogateMin == 56320    \* 0xDC00  (utf-16 codec)
LowSurrogateMax == 57343    \* 0xDFFF  (utf-16 codec)
SupplementaryBase == 65536  \* 0x10000 (utf-16 codec)

\* --------------------------------------------------------------- text
HexDigits == <<"0","1","2","3","4","5","6","7","8","9","A","B","C","D","E","F">>

DecDigits == <<"0","1","2","3","4","5","6","7","8","9">>

\* A variant of FormatX: format(code_point, "04X"), padded to four digits.
FormatX_Padded(n) ==
    LET RECURSIVE Digits(_)
        Digits(m) == IF m < 16 THEN <<HexDigits[m + 1]>>
                     ELSE Digits(m \div 16) \o <<HexDigits[(m % 16) + 1]>>
        ds == Digits(n)
    IN  IF Len(ds) >= 4 THEN ds
        ELSE [i \in 1..(4 - Len(ds)) |-> "0"] \o ds

\* format(code_point, "X"): uppercase hexadecimal, no padding (line 35).
RECURSIVE FormatX(_)
FormatX(n) ==
    IF n < 16 THEN <<HexDigits[n + 1]>>
    ELSE FormatX(n \div 16) \o <<HexDigits[(n % 16) + 1]>>

\* str(n) of a non-negative int (line 65, map(str, codepoints)).
RECURSIVE Str(_)
Str(n) ==
    IF n < 10 THEN <<DecDigits[n + 1]>>
    ELSE Str(n \div 10) \o <<DecDigits[(n % 10) + 1]>>

\* sep.join(parts) (line 65 with sep = ", ", line 92 is kept as a list).
RECURSIVE Join(_, _)
Join(sep, parts) ==
    IF parts = <<>> THEN <<>>
    ELSE IF Len(parts) = 1 THEN parts[1]
    ELSE parts[1] \o sep \o Join(sep, Tail(parts))

\* ------------------------------------------------------ the utf-16-be codec
IsSurrogate(c) == c >= HighSurrogateMin /\ c <= LowSurrogateMax

IsHighSurrogate(c) == c >= HighSurrogateMin /\ c <= HighSurrogateMax

IsLowSurrogate(c) == c >= LowSurrogateMin /\ c <= LowSurrogateMax

\* The 16-bit code units of one code point that is not a surrogate.
CodeUnits(c) ==
    IF c < SupplementaryBase THEN <<c>>
    ELSE << HighSurrogateMin + ((c - SupplementaryBase) \div 1024),
            LowSurrogateMin + ((c - SupplementaryBase) % 1024) >>

\* Big-endian bytes of a sequence of code units.
RECURSIVE UnitsToBytes(_)
UnitsToBytes(units) ==
    IF units = <<>> THEN <<>>
    ELSE << units[1] \div 256, units[1] % 256 >> \o UnitsToBytes(Tail(units))

\* str.encode('utf-16-be') with the default errors='strict' (line 28): a
\* surrogate code point cannot be encoded and raises UnicodeEncodeError.
RECURSIVE Utf16BeEncode(_)
Utf16BeEncode(s) ==
    IF s = <<>> THEN [exc |-> "none", bytes |-> <<>>]
    ELSE IF IsSurrogate(s[1]) THEN [exc |-> "UnicodeEncodeError", bytes |-> <<>>]
    ELSE LET rest == Utf16BeEncode(Tail(s)) IN
         IF rest.exc # "none" THEN rest
         ELSE [exc |-> "none",
               bytes |-> UnitsToBytes(CodeUnits(s[1])) \o rest.bytes]

\* Code units of a sequence of big-endian bytes of even length.
RECURSIVE BytesToUnits(_)
BytesToUnits(bytes) ==
    IF Len(bytes) < 2 THEN <<>>
    ELSE << bytes[1] * 256 + bytes[2] >> \o BytesToUnits(SubSeq(bytes, 3, Len(bytes)))

\* Decoding of code units: a high surrogate followed by a low one is one
\* code point, an unpaired surrogate raises UnicodeDecodeError.
RECURSIVE DecodeUnits(_)
DecodeUnits(units) ==
    IF units = <<>> THEN [exc |-> "none", str |-> <<>>]
    ELSE IF IsHighSurrogate(units[1]) THEN
        IF Len(units) >= 2 /\ IsLowSurrogate(units[2]) THEN
            LET rest == DecodeUnits(SubSeq(units, 3, Len(units))) IN
            IF rest.exc # "none" THEN rest
            ELSE [exc |-> "none",
                  str |-> << SupplementaryBase
                             + (units[1] - HighSurrogateMin) * 1024
                             + (units[2] - LowSurrogateMin) >> \o rest.str]
        ELSE [exc |-> "UnicodeDecodeError", str |-> <<>>]
    ELSE IF IsLowSurrogate(units[1]) THEN [exc |-> "UnicodeDecodeError", str |-> <<>>]
    ELSE LET rest == DecodeUnits(Tail(units)) IN
         IF rest.exc # "none" THEN rest
         ELSE [exc |-> "none", str |-> <<units[1]>> \o rest.str]

\* bytes.decode('utf-16-be') (line 28).
Utf16BeDecode(bytes) ==
    IF Len(bytes) % 2 = 1 THEN [exc |-> "UnicodeDecodeError", str |-> <<>>]
    ELSE DecodeUnits(BytesToUnits(bytes))

\* ------------------------------------------------------- the transcoder
\* What a call ends with: a returned value, or an exception that leaves it.
Return(v) == [exc |-> "none", value |-> v]

Raise(e) == [exc |-> e, value |-> <<>>]

\* Line 35: f"\\u{{{code_point:X}}}".
EscapeLiteral(code_point) == <<"\\", "u", "{">> \o FormatX(code_point) \o <<"}">>

\* Lines 24-32: the try block and its one handler, except UnicodeDecodeError.
\* ord() of a str whose length is not 1 raises TypeError.
Recombine(char_string, code_point) ==
    LET encoded == Utf16BeEncode(char_string) IN
    IF encoded.exc # "none" THEN Raise(encoded.exc)
    ELSE LET decoded == Utf16BeDecode(encoded.bytes) IN
         IF decoded.exc = "UnicodeDecodeError" THEN Return(code_point)
         ELSE IF Len(decoded.str) # 1 THEN Raise("TypeError")
         ELSE Return(decoded.str[1])

\* Lines 3-35.
convert_unicode_escape_to_zig(char_string) ==
    IF char_string = <<>> THEN Return(<<>>)
    ELSE LET code_point == char_string[1] IN
         IF Len(char_string) > 1 /\ code_point >= HighSurrogateMin
                                 /\ code_point <= HighSurrogateMax
         THEN LET r == Recombine(char_string, code_point) IN
              IF r.exc # "none" THEN r ELSE Return(EscapeLiteral(r.value))
         ELSE Return(EscapeLiteral(code_point))


\* ------------------------------------------------------- the generator
input_file == "entities.json"            \* line 95

output_struct_name == "HtmlEntity"       \* line 38, the default

\* One element of output_lines, or the one line of a returned diagnostic.
\* name is the interpolated identifier (struct name, entity name or path).
Line(kind, name, codepoints, characters, detail) ==
    [kind |-> kind, name |-> name, codepoints |-> codepoints,
     characters |-> characters, detail |-> detail]

\* Lines 50-58.
HeaderLines ==
    << Line("struct_open", output_struct_name, <<>>, <<>>, ""),
       Line("field_name", "", <<>>, <<>>, ""),
       Line("field_codepoints", "", <<>>, <<>>, ""),
       Line("field_characters", "", <<>>, <<>>, ""),
       Line("struct_close", "", <<>>, <<>>, ""),
       Line("blank", "", <<>>, <<>>, ""),
       Line("array_open", output_struct_name, <<>>, <<>>, "") >>

\* Line 46.
NotFoundDiagnostic == Line("error_not_found", input_file, <<>>, <<>>, "")

\* Line 48; e is the text of the JSONDecodeError.
JsonDiagnostic(e) == Line("error_decoding_json", input_file, <<>>, <<>>, e)

\* A variant of CodepointsZig: the list is written back to front.
CodepointsZig_Reversed(codepoints) ==
    <<"&", "[", "_", "]", "u", "3", "2", "{">>
    \o Join(<<",", " ">>,
            [i \in 1..Len(codepoints) |->
                Str(codepoints[Len(codepoints) + 1 - i])])
    \o <<"}">>

\* Line 65: f"&[_]u32{{{', '.join(map(str, codepoints))}}}".
CodepointsZig(codepoints) ==
    <<"&", "[", "_", "]", "u", "3", "2", "{">>
    \o Join(<<",", " ">>, [i \in 1..Len(codepoints) |-> Str(codepoints[i])])
    \o <<"}">>

\* Lines 79-84.
CharactersEscape(characters_raw) ==
    IF characters_raw # <<>> THEN convert_unicode_escape_to_zig(characters_raw)
    ELSE Return(<<>>)

\* Lines 86-88: the entry appended for one record.
EntryLine(name, codepoints_zig, zig_characters_escape) ==
    Line("entry", name, codepoints_zig, zig_characters_escape, "")

\* A variant of AppendLine: output_lines.insert(0, line).
AppendLine_AtFront(lines, line) == <<line>> \o lines

\* Lines 86 and 90: output_lines.append(line).
AppendLine(lines, line) == Append(lines, line)

\* Lines 61-88, the body of the loop for one (name, data) item: the new
\* output_lines, or the exception that leaves the function.
LoopBody(lines, name, data) ==
    IF "codepoints" \notin DOMAIN data THEN Raise("KeyError")
    ELSE IF "characters" \notin DOMAIN data THEN Raise("KeyError")
    ELSE LET codepoints_zig == CodepointsZig(data["codepoints"])
             escape == CharactersEscape(data["characters"])
         IN  IF escape.exc # "none" THEN Raise(escape.exc)
             ELSE Return(AppendLine(lines,
                             EntryLine(name, codepoints_zig, escape.value)))

\* A variant of WithExit: the handle is left as it is.
WithExit_Skipped(handle) == handle

\* The end of the with block (line 43): the handle is closed on every way out.
WithExit(handle) == "closed"

\* ------------------------------------------------------------- inputs
\* Code points the transcoder is called with: ASCII, the edges of the
\* surrogate ranges, the pair of U+1D538, and the supplementary planes.
Alphabet ==
    { 0, 65, 55295, 55296, 55349, 56319, 56320, 56632, 57343, 57344,
      65535, 65536, 120120, 1114111 }

Strings == UNION { [1..n -> Alphabet] : n \in 0..MaxLen }

Names == {"amp", "lt", "Bopf"}

CodepointSource == <<8810, 824, 0, 38, 120120>>

\* codepoints arrays of the input file: the prefixes of CodepointSource.
EntityCodepoints == { SubSeq(CodepointSource, 1, n) : n \in 0..MaxCps }

\* characters strings of the input file.  json.load joins an escaped
\* surrogate pair into one code point and keeps an unpaired surrogate.
EntityCharacters == { <<>>, <<38>>, <<120120>>, <<55349>>, <<55349, 38>> }

\* The object of one entity: either field may be absent.
EntityData ==
    { ("codepoints" :> c) @@ ("characters" :> s) :
          c \in EntityCodepoints, s \in EntityCharacters }
    \cup { ("codepoints" :> c) : c \in EntityCodepoints }
    \cup { ("characters" :> s) : s \in EntityCharacters }

\* entities.items() of a loaded JSON object: (name, data) pairs in the order
\* of the file, the names unique.
ItemLists ==
    UNION { { t \in [1..n -> Names \X EntityData] :
                \A i, j \in 1..n : t[i][1] = t[j][1] => i = j }
            : n \in 0..MaxRecords }

\* What the file holds: bytes that are not UTF-8, text that is not JSON,
\* a JSON value that is not an object, or a JSON object.
FileContents ==
    { [kind |-> k, items |-> <<>>, detail |-> ""] : k \in {"invalid_utf8", "non_object"} }
    \cup { [kind |-> "invalid_json", items |-> <<>>, detail |-> "Expecting value"] }
    \cup { [kind |-> "object", items |-> t, detail |-> ""] : t \in ItemLists }

NoContent == [kind |-> "none", items |-> <<>>, detail |-> ""]

\* ------------------------------------------------------------- state
VARIABLES
    char_string,    \* the argument of a call of the transcoder
    t_pc,           \* "idle" | "call" | "done"
    t_result,       \* what the call ended with
    file_status,    \* "missing" | "unreadable" | "readable"
    file_content,   \* what the file holds
    f,              \* the file handle: "unopened" | "open" | "closed"
    pc,             \* position in generate_zig_entity_array
    pending,        \* the exception leaving the with block, or "none"
    entities,       \* the value json.load returned
    idx,            \* the next item of entities.items()
    output_lines,
    result          \* the returned text, or the exception raised

vars == << char_string, t_pc, t_result, file_status, file_content, f, pc,
           pending, entities, idx, output_lines, result >>

t_vars == << char_string, t_pc, t_result >>

g_vars == << file_status, file_content, f, pc, pending, entities, idx,
             output_lines, result >>

\* ------------------------------------------------- generate_zig_entity_array
GeneratorStart ==
    /\ f = "unopened"
    /\ pc = "open"
    /\ pending = "none"
    /\ entities = NoContent
    /\ idx = 1
    /\ output_lines = <<>>
    /\ result = Return(<<>>)

Init ==
    /\ char_string = <<>> /\ t_pc = "idle" /\ t_result = Return(<<>>)
    /\ file_status \in {"missing", "unreadable", "readable"}
    /\ file_content \in FileContents
    /\ file_status # "readable" => file_content.kind = "invalid_json"
    /\ GeneratorStart

\* Line 43, open(input_file): FileNotFoundError is caught (lines 45-46),
\* any other OSError (PermissionError, IsADirectoryError) leaves the function.
Open ==
    /\ pc = "open"
    /\ IF file_status = "missing"
       THEN /\ pc' = "done"
            /\ result' = Return(<<NotFoundDiagnostic>>)
            /\ f' = f
       ELSE IF file_status = "unreadable"
       THEN /\ pc' = "raised"
            /\ result' = Raise("PermissionError")
            /\ f' = f
       ELSE /\ pc' = "load"
            /\ f' = "open"
            /\ result' = result
    /\ UNCHANGED << file_status, file_content, pending, entities, idx,
                    output_lines, t_vars >>

\* Line 44, json.load(f): reads the whole file, then parses it.
JsonLoad ==
    /\ pc = "load"
    /\ pc' = "exit_with"
    /\ IF file_content.kind = "invalid_utf8"
       THEN pending' = "UnicodeDecodeError" /\ entities' = entities
       ELSE IF file_content.kind = "invalid_json"
       THEN pending' = "JSONDecodeError" /\ entities' = entities
       ELSE pending' = "none" /\ entities' = file_content
    /\ UNCHANGED << file_status, file_content, f, idx, output_lines, result,
                    t_vars >>

\* Leaving the with block (line 43), then lines 45-48: JSONDecodeError is
\* caught and reported, any other exception leaves the function.
ExitWith ==
    /\ pc = "exit_with"
    /\ f' = WithExit(f)
    /\ IF pending = "JSONDecodeError"
       THEN /\ pc' = "done"
            /\ result' = Return(<<JsonDiagnostic(file_content.detail)>>)
       ELSE IF pending # "none"
       THEN /\ pc' = "raised"
            /\ result' = Raise(pending)
       ELSE /\ pc' = "header"
            /\ result' = result
    /\ UNCHANGED << file_status, file_content, pending, entities, idx,
                    output_lines, t_vars >>

\* Lines 50-58.
BuildHeader ==
    /\ pc = "header"
    /\ output_lines' = HeaderLines
    /\ pc' = "loop"
    /\ UNCHANGED << file_status, file_content, f, pending, entities, idx,
                    result, t_vars >>

\* Line 60, entities.items(): a JSON value that is not an object has no
\* items (AttributeError).
Items ==
    /\ pc = "loop"
    /\ entities.kind # "object"
    /\ pc' = "raised"
    /\ result' = Raise("AttributeError")
    /\ UNCHANGED << file_status, file_content, f, pending, entities, idx,
                    output_lines, t_vars >>

\* Lines 60-88: one iteration of the loop.
IterateRecord ==
    /\ pc = "loop"
    /\ entities.kind = "object"
    /\ idx <= Len(entities.items)
    /\ LET name == entities.items[idx][1]
           data == entities.items[idx][2]
           body == LoopBody(output_lines, name, data)
       IN  IF body.exc # "none"
           THEN /\ pc' = "raised"
                /\ result' = Raise(body.exc)
                /\ UNCHANGED << idx, output_lines >>
           ELSE /\ output_lines' = body.value
                /\ idx' = idx + 1
                /\ UNCHANGED << pc, result >>
    /\ UNCHANGED << file_status, file_content, f, pending, entities, t_vars >>

\* Lines 90-92: the loop is over.
Finish ==
    /\ pc = "loop"
    /\ entities.kind = "object"
    /\ idx > Len(entities.items)
    /\ output_lines' = AppendLine(output_lines,
                                  Line("array_close", "", <<>>, <<>>, ""))
    /\ result' = Return(output_lines')
    /\ pc' = "done"
    /\ UNCHANGED << file_status, file_content, f, pending, entities, idx,
                    t_vars >>

Next ==
    \/ Open
    \/ JsonLoad
    \/ ExitWith
    \/ BuildHeader
    \/ Items
    \/ IterateRecord
    \/ Finish

Spec == Init /\ [][Next]_vars

\* ------------------------------------------- convert_unicode_escape_to_zig
\* Any str may be passed to the transcoder.
InitT ==
    /\ char_string \in Strings
    /\ t_pc = "call"
    /\ t_result = Return(<<>>)
    /\ file_status = "missing"
    /\ file_content = NoContent
    /\ GeneratorStart

\* Lines 3-35: one call.
Transcode ==
    /\ t_pc = "call"
    /\ t_result' = convert_unicode_escape_to_zig(char_string)
    /\ t_pc' = "done"
    /\ UNCHANGED << char_string, g_vars >>

NextT == Transcode

SpecT == InitT /\ [][NextT]_vars

\* ================================================================ claims
\* Reading the produced text back, independently of the code that wrote it.
HexDigitValue(d) == CHOOSE v \in 0..15 : HexDigits[v + 1] = d

RECURSIVE HexValue(_)
HexValue(ds) ==
    IF ds = <<>> THEN 0
    ELSE 16 * HexValue(SubSeq(ds, 1, Len(ds) - 1)) + HexDigitValue(ds[Len(ds)])

DecDigitValue(d) == CHOOSE v \in 0..9 : DecDigits[v + 1] = d

RECURSIVE DecValue(_)
DecValue(ds) ==
    IF ds = <<>> THEN 0
    ELSE 10 * DecValue(SubSeq(ds, 1, Len(ds) - 1)) + DecDigitValue(ds[Len(ds)])

IsUpperHexDigit(d) == \E v \in 0..15 : HexDigits[v + 1] = d

IsDecDigit(d) == \E v \in 0..9 : DecDigits[v + 1] = d

\* The digits between the braces of \u{...}.
LiteralDigits(lit) == SubSeq(lit, 4, Len(lit) - 1)

\* lit has the form \u{HEX}: uppercase digits, at least one, no leading zero.
IsEscapeLiteral(lit) ==
    /\ Len(lit) >= 5
    /\ SubSeq(lit, 1, 3) = <<"\\", "u", "{">>
    /\ lit[Len(lit)] = "}"
    /\ \A i \in 4..(Len(lit) - 1) : IsUpperHexDigit(lit[i])
    /\ (Len(lit) > 5 => lit[4] # "0")

LiteralValue(lit) == HexValue(LiteralDigits(lit))

\* The scalar a surrogate pair stands for.
PairScalar(high, low) ==
    SupplementaryBase + (high - HighSurrogateMin) * 1024 + (low - LowSurrogateMin)

\* A number list "n1, n2, ..." read back; <<-1>> when it is not one.
RECURSIVE ParseNumberList(_)
ParseNumberList(body) ==
    LET commas == { i \in 1..Len(body) : body[i] = "," } IN
    IF commas = {} THEN
        IF body # <<>> /\ \A i \in 1..Len(body) : IsDecDigit(body[i])
        THEN <<DecValue(body)>> ELSE <<-1>>
    ELSE LET k == CHOOSE i \in commas : \A j \in commas : i <= j
             head == SubSeq(body, 1, k - 1)
         IN  IF /\ head # <<>>
                /\ \A i \in 1..Len(head) : IsDecDigit(head[i])
                /\ Len(body) > k + 1
                /\ body[k + 1] = " "
             THEN <<DecValue(head)>> \o ParseNumberList(SubSeq(body, k + 2, Len(body)))
             ELSE <<-1>>

\* The integers of a literal &[_]u32{...}; <<-1>> when it is not one.
ParseCodepointsZig(text) ==
    IF /\ Len(text) >= 9
       /\ SubSeq(text, 1, 8) = <<"&", "[", "_", "]", "u", "3", "2", "{">>
       /\ text[Len(text)] = "}"
    THEN IF Len(text) = 9 THEN <<>>
         ELSE ParseNumberList(SubSeq(text, 9, Len(text) - 1))
    ELSE <<-1>>

EntryLines(lines) == SelectSeq(lines, LAMBDA l : l.kind = "entry")

LayoutKinds ==
    { "struct_open", "field_name", "field_codepoints", "field_characters",
      "struct_close", "blank", "array_open", "entry", "array_close" }

IsDiagnostic(value) ==
    /\ Len(value) = 1
    /\ value[1].kind \in {"error_not_found", "error_decoding_json"}
    /\ value[1].name = input_file

HasField(data, field) == field \in DOMAIN data

\* C1: the transcoder raises no exception for any input string: every call
\* returns a literal, the empty one or a \u{HEX} one.
C1_NeverRaises ==
    t_pc = "done" =>
        /\ t_result.exc = "none"
        /\ (t_result.value = <<>> \/ IsEscapeLiteral(t_result.value))

\* C2: for an input that is a high surrogate H followed by a low surrogate L
\* the transcoder returns the escape literal of the scalar
\* 0x10000 + (H - 0xD800) * 0x400 + (L - 0xDC00).
C2_PairRecovered ==
    ( /\ t_pc = "done"
      /\ Len(char_string) = 2
      /\ IsHighSurrogate(char_string[1])
      /\ IsLowSurrogate(char_string[2]) ) =>
        /\ t_result.exc = "none"
        /\ IsEscapeLiteral(t_result.value)
        /\ LiteralValue(t_result.value) = PairScalar(char_string[1], char_string[2])

\* C3: for an input of more than one code unit whose first is a high
\* surrogate and whose second is not a low surrogate, the transcoder falls
\* back to the first code unit: it returns \u{HEX} of that unit.
C3_FallbackToFirstUnit ==
    ( /\ t_pc = "done"
      /\ Len(char_string) > 1
      /\ IsHighSurrogate(char_string[1])
      /\ ~IsLowSurrogate(char_string[2]) ) =>
        /\ t_result.exc = "none"
        /\ IsEscapeLiteral(t_result.value)
        /\ LiteralValue(t_result.value) = char_string[1]

\* C4: for a non-empty input whose first character c is not a surrogate, the
\* transcoder returns \u{HEX} with HEX the uppercase hexadecimal of c without
\* leading zeros, whatever follows; reading the digits back gives c.
C4_Lossless ==
    ( /\ t_pc = "done"
      /\ char_string # <<>>
      /\ ~IsSurrogate(char_string[1]) ) =>
        /\ t_result.exc = "none"
        /\ IsEscapeLiteral(t_result.value)
        /\ LiteralValue(t_result.value) = char_string[1]

C4_Witness ==
    /\ t_pc = "done"
    /\ Len(char_string) = 2
    /\ char_string[1] = 120120
    /\ IsSurrogate(char_string[2])
    /\ t_result = Return(<<"\\", "u", "{", "1", "D", "5", "3", "8", "}">>)

\* C5: for a loaded table, the emitted array has exactly one entry per
\* record, in the order of the table: the i-th entry carries the name of the
\* i-th record (while the loop runs, the entries so far are those of the
\* records already passed).
C5_RecordOrder ==
    ( /\ entities.kind = "object"
      /\ pc \in {"loop", "done"}
      /\ result.exc = "none" ) =>
        LET es == EntryLines(output_lines)
            n == IF pc = "done" THEN Len(entities.items) ELSE idx - 1
        IN  /\ Len(es) = n
            /\ \A i \in 1..n : es[i].name = entities.items[i][1]
            /\ \A i \in 1..n : output_lines[Len(HeaderLines) + i] = es[i]
            /\ (pc = "done" =>
                  /\ result.value = output_lines
                  /\ Len(output_lines) = Len(HeaderLines) + n + 1
                  /\ output_lines[Len(output_lines)].kind = "array_close")

C5_Witness ==
    /\ pc = "done"
    /\ entities.kind = "object"
    /\ Len(entities.items) = 2
    /\ entities.items[1][1] = "lt"
    /\ entities.items[2][1] = "amp"
    /\ Len(EntryLines(result.value)) = 2
    /\ EntryLines(result.value)[1].name = "lt"
    /\ EntryLines(result.value)[2].name = "amp"

\* C6: a load-time error aborts the generation with no partial output: when
\* the path is not a readable file, or the contents are not valid structured
\* data, a diagnostic string naming the path (with the parse detail for a
\* parse failure) is returned instead of an exception raised, and it holds no
\* part of the struct declaration or the array.
C6_LoadErrorReported ==
    ( /\ pc \in {"done", "raised"}
      /\ \/ file_status # "readable"
         \/ file_content.kind \in {"invalid_utf8", "invalid_json"} ) =>
        /\ result.exc = "none"
        /\ IsDiagnostic(result.value)
        /\ \A i \in 1..Len(result.value) : result.value[i].kind \notin LayoutKinds
        /\ (file_status = "readable" => result.value[1].detail = file_content.detail)

\* C7: a record without the codepoints field or without the characters
\* field is reported: the invocation returns a diagnostic string instead of
\* raising, and no array.
C7_MissingFieldReported ==
    ( /\ pc \in {"done", "raised"}
      /\ entities.kind = "object"
      /\ idx <= Len(entities.items)
      /\ \/ ~HasField(entities.items[idx][2], "codepoints")
         \/ ~HasField(entities.items[idx][2], "characters") ) =>
        /\ result.exc = "none"
        /\ Len(result.value) = 1
        /\ result.value[1].kind \notin LayoutKinds

\* C8: the codepoints field of every entry lists exactly the integers of its
\* record, in their order, separated by ", ", for every length including
\* zero; a record with no codepoints is emitted with an empty list, not left
\* out.
C8_CodepointsRendered ==
    ( /\ entities.kind = "object"
      /\ pc \in {"loop", "done"}
      /\ result.exc = "none" ) =>
        LET es == EntryLines(output_lines)
            n == IF pc = "done" THEN Len(entities.items) ELSE idx - 1
        IN  /\ Len(es) = n
            /\ \A i \in 1..n :
                  ParseCodepointsZig(es[i].codepoints)
                      = entities.items[i][2]["codepoints"]

C8_Witness ==
    /\ pc = "done"
    /\ entities.kind = "object"
    /\ Len(entities.items) = 2
    /\ entities.items[1][2]["codepoints"] = <<>>
    /\ entities.items[2][2]["codepoints"] = <<8810, 824>>
    /\ EntryLines(result.value)[1].codepoints
           = <<"&", "[", "_", "]", "u", "3", "2", "{", "}">>
    /\ EntryLines(result.value)[2].codepoints
           = <<"&", "[", "_", "]", "u", "3", "2", "{",
               "8", "8", "1", "0", ",", " ", "8", "2", "4", "}">>

\* C9: every codepoint the transcoder puts in a \u{HEX} literal is a Unicode
\* scalar value: in 0 .. 0x10FFFF and not in the surrogate range.
C9_ScalarValue ==
    ( /\ t_pc = "done"
      /\ char_string # <<>>
      /\ t_result.exc = "none" ) =>
        /\ IsEscapeLiteral(t_result.value)
        /\ LiteralValue(t_result.value) \in 0..1114111
        /\ ~IsSurrogate(LiteralValue(t_result.value))

\* C10: the file handle is opened, read and released before the first
\* record is processed: it is closed at every step of the loop, and it is
\* not open when a diagnostic is returned or an exception leaves.
C10_HandleScoped ==
    /\ (pc \in {"header", "loop"} => f = "closed")
    /\ (pc \in {"done", "raised"} => f # "open")
    /\ (pc = "done" /\ result.value # <<>>
            /\ result.value[1].kind = "error_decoding_json" => f = "closed")

C10_Witness ==
    /\ pc = "loop"
    /\ idx = 2
    /\ Len(EntryLines(output_lines)) = 1
    /\ f = "closed"

=============================================================================
